---- MODULE Spec2Model ----
(***************************************************************************)
(* Harmonic tide prediction library (tide-lib.js): heightCmAtUTC,          *)
(* seriesCmAtUTC, the frozen default profile ITSUKUSHIMA_PARAMS, the angle *)
(* normalisation mod360 and the internal functions advanceArgs, nodalFU,   *)
(* createDayContext and heightCmAtUTCWithDayCtx.                           *)
(*                                                                         *)
(* tide-lib.js holds two definitions of the library: lines 1-270 (profiles *)
(* with a phase convention, a reference longitude and a seasonal model)    *)
(* and lines 272-532 (profiles of Z0 and constituents only).  A definition *)
(* of the second that differs from the first carries the suffix 2; mod360, *)
(* cosd, sind, utcMidnightMs, dayOfYear0 and astroArgsAtUTMidnight are the *)
(* same in both.  The variable lib is the definition that is loaded.       *)
(*                                                                         *)
(* Number representation.  JavaScript numbers are IEEE doubles; the model  *)
(* computes in fixed point:                                                *)
(*   angles            integer micro-degrees   (UDEG per degree)           *)
(*   sin, cos, f       integer millionths      (E6 = 1.0)                  *)
(*   H_cm, Z0_cm, eta  integer millionths of a centimetre                  *)
(*   timestamps        [day, ms]: whole days since 1970-01-01 and the      *)
(*                     millisecond of that day (getTime() = day*DAY_MS+ms) *)
(* Products are floored toward zero at the unit of the result.             *)
(***************************************************************************)
EXTENDS Integers, Sequences, FiniteSets, TLC

E3 == 10 * 100
E6 == 1000 * 1000
UDEG == 1000 * 1000

MINUTE_MS == 60000
HOUR_MS == 3600000
DAY_MS == 86400000

\* The element of a one-element set.  {e(v) : v \in {x}} evaluates x once and
\* binds v to its value, where a LET would evaluate x at each use of v.
Only(S) == CHOOSE v \in S : TRUE

Abs(a) == IF a < 0 THEN -a ELSE a
Sgn(a) == IF a < 0 THEN -1 ELSE IF a > 0 THEN 1 ELSE 0

\* floor(a*b / 10^6) for 0 <= a, b, computed without leaving 32 bits.
MulE6N(a, b) ==
  Only({ (x \div E3) * (y \div E3)
           + ((x \div E3) * (y % E3) + (x % E3) * (y \div E3)
                + ((x % E3) * (y % E3)) \div E3) \div E3 : x \in {a}, y \in {b} })

\* a*b / 10^6 for signed a, b, rounded toward zero.
MulE6(a, b) == Only({ Sgn(x) * Sgn(y) * MulE6N(Abs(x), Abs(y)) : x \in {a}, y \in {b} })

\* a / n rounded toward zero (JavaScript's division followed by truncation).
DivT(a, n) == Only({ Sgn(x) * (Abs(x) \div n) : x \in {a} })

----------------------------------------------------------------------------
(* Math.sin / Math.cos on degrees (cosd, sind and the d * DEG conversions). *)

\* d * DEG: micro-degrees to micro-radians, 0 <= d <= 45 degrees.
Rad(d) == MulE6N(d, 17453293) \div E3

\* sin x and cos x for 0 <= x <= pi/4 (x in micro-radians), Taylor series.
SinPoly(x) ==
  LET t4(x2) == E6 - x2 \div 72
      t3(x2) == E6 - MulE6N(x2, t4(x2)) \div 42
      t2(x2) == E6 - MulE6N(x2, t3(x2)) \div 20
      t1(x2) == E6 - MulE6N(x2, t2(x2)) \div 6
  IN Only({ MulE6N(v, t1(x2)) : v \in {x}, x2 \in {MulE6N(x, x)} })

CosPoly(x) ==
  LET c4(x2) == E6 - x2 \div 56
      c3(x2) == E6 - MulE6N(x2, c4(x2)) \div 30
      c2(x2) == E6 - MulE6N(x2, c3(x2)) \div 12
  IN Only({ E6 - MulE6N(x2, c2(x2)) \div 2 : x2 \in {MulE6N(x, x)} })

\* sin of d micro-degrees, 0 <= d <= 90 degrees.
SinQ(d) ==
  Only({ IF q <= 45 * UDEG THEN SinPoly(Rad(q)) ELSE CosPoly(Rad(90 * UDEG - q)) : q \in {d} })

\* Math.sin(d * DEG) for any d in micro-degrees.
sind(d) ==
  LET h(r) == IF r < 180 * UDEG THEN r ELSE r - 180 * UDEG
      q(r) == IF h(r) <= 90 * UDEG THEN h(r) ELSE 180 * UDEG - h(r)
  IN Only({ IF r < 180 * UDEG THEN SinQ(q(r)) ELSE -SinQ(q(r)) : r \in {d % (360 * UDEG)} })

\* Math.cos(d * DEG) for any d in micro-degrees.
cosd(d) == sind(d + 90 * UDEG)

----------------------------------------------------------------------------
(* mod360.  A double handed to mod360 is [u, eps]: u its value in whole    *)
(* micro-degrees and eps the sign of a residue smaller than half an ulp of *)
(* one micro-degree (eps # 0 only with u = 0: the doubles -1e-300 and      *)
(* 1e-300 are [0, -1] and [0, 1]).  Every value of the tide computation is *)
(* a whole number of micro-degrees, Dbl(u).                                *)

Dbl(u) == [u |-> u, eps |-> 0]

\* a % m of JavaScript: the remainder takes the sign of the dividend.
JsRem(a, m) == IF a >= 0 THEN a % m ELSE -((-a) % m)

\* IEEE round-to-nearest of u + residue: next to a non-zero number of
\* micro-degrees the residue is less than half an ulp and is rounded away.
Fl(v) == IF v.u # 0 THEN [u |-> v.u, eps |-> 0] ELSE v

IsNeg(x) == x.u < 0 \/ (x.u = 0 /\ x.eps < 0)

mod360(deg) ==
  Only({ IF IsNeg(x) THEN Fl([u |-> x.u + 360 * UDEG, eps |-> x.eps]) ELSE x :
           x \in {[u |-> JsRem(d.u, 360 * UDEG), eps |-> d.eps] : d \in {deg}} })

----------------------------------------------------------------------------
(* Date: the calendar of ECMAScript (DayFromYear, YearFromTime, MakeDay).  *)

Ts(day, ms) == [day |-> day, ms |-> ms]

DaysInYear(y) ==
  IF y % 4 # 0 THEN 365 ELSE IF y % 100 # 0 THEN 366 ELSE IF y % 400 # 0 THEN 365 ELSE 366

DayFromYear(y) ==
  365 * (y - 1970) + ((y - 1969) \div 4) - ((y - 1901) \div 100) + ((y - 1601) \div 400)

YearFromDay(day) ==
  LET g == 1970 + (day \div 366)
      slack == 2 + Abs(day) \div 100000
  IN CHOOSE y \in (g - slack)..(g + slack) :
       DayFromYear(y) <= day /\ day < DayFromYear(y + 1)

\* Days before each month, and in the whole year, of a year of n days.
MonthStarts(n) ==
  Only({ <<0, 31, 59 + leap, 90 + leap, 120 + leap, 151 + leap, 181 + leap,
           212 + leap, 243 + leap, 273 + leap, 304 + leap, 334 + leap, 365 + leap>> :
           leap \in {n - 365} })

\* Days before month m (0-based) in a year of n days.
MonthStart(m, n) == MonthStarts(n)[m + 1]

getUTCFullYear(date) == YearFromDay(date.day)

DayWithinYear(date) == date.day - DayFromYear(getUTCFullYear(date))

getUTCMonth(date) ==
  Only({ CHOOSE m \in 0..11 : t[m + 1] <= w /\ w < t[m + 2] :
           t \in {MonthStarts(DaysInYear(getUTCFullYear(date)))},
           w \in {DayWithinYear(date)} })

getUTCDate(date) ==
  Only({ date.day - DayFromYear(y) - MonthStart(getUTCMonth(date), DaysInYear(y)) + 1 :
           y \in {getUTCFullYear(date)} })

\* Date.UTC(year, month, date, 0, 0, 0, 0); a year 0..99 means 1900 + year.
DateUTC(year, month, date) ==
  Only({ Ts(DayFromYear(y) + MonthStart(month, DaysInYear(y)) + date - 1, 0) :
           y \in {IF 0 <= year /\ year <= 99 THEN 1900 + year ELSE year} })

\* a.getTime() - b.getTime(), in milliseconds.
MsBetween(a, b) == (a.day - b.day) * DAY_MS + (a.ms - b.ms)

\* new Date(t.getTime() + ms)
PlusMs(t, ms) ==
  LET total == t.ms + ms
  IN Ts(t.day + (total \div DAY_MS), total % DAY_MS)

\* utcMidnightMs one day of the month further: the midnight at which the
\* instant's UTC day ends.
utcMidnightMs_DayAfter(dateUTC) ==
  DateUTC(getUTCFullYear(dateUTC), getUTCMonth(dateUTC), getUTCDate(dateUTC) + 1)

\* Lines 35-42 (308-310 in the second definition).
utcMidnightMs(dateUTC) ==
  DateUTC(getUTCFullYear(dateUTC), getUTCMonth(dateUTC), getUTCDate(dateUTC))

\* dayOfYear0 counting 1 January as day 1.
dayOfYear1(dateUTC) ==
  Only({ (mid.day - jan1.day) + ((mid.ms - jan1.ms) \div DAY_MS) + 1 :
           jan1 \in {DateUTC(getUTCFullYear(dateUTC), 0, 1)},
           mid \in {utcMidnightMs(dateUTC)} })

dayOfYear0(dateUTC) ==
  Only({ (mid.day - jan1.day) + ((mid.ms - jan1.ms) \div DAY_MS) :
           jan1 \in {DateUTC(getUTCFullYear(dateUTC), 0, 1)},
           mid \in {utcMidnightMs(dateUTC)} })

----------------------------------------------------------------------------
(* Astronomical arguments.                                                 *)

\* (a * k) reduced modulo 360 degrees with the sign of the product, for
\* 0 <= a < 360 degrees: the terms of s, h, p, N are summed modulo 360
\* degrees so that they stay within 32 bits; mod360 of the sum is the same.
RECURSIVE MulModN(_, _)
MulModN(a, k) ==
  IF k = 0 THEN 0
  ELSE IF k % 2 = 1 THEN (a + MulModN(a, k - 1)) % (360 * UDEG)
  ELSE MulModN((2 * a) % (360 * UDEG), k \div 2)

MulMod(a, k) ==
  Only({ Sgn(x) * Sgn(n) * MulModN(Abs(x) % (360 * UDEG), Abs(n)) : x \in {a}, n \in {k} })

\* L_correction with the year divided as it is.
L_correction_Truncated(year) == (year \div 4) - 500

\* Math.floor((Y + 3) / 4) - 500 (line 56; L_correction of the second
\* definition, lines 320-322).
L_correction(year) == ((year + 3) \div 4) - 500

astroArgsAtUTMidnight(dateUTC) ==
  LET y(Y) == Y - 2000
      L(Y) == L_correction(Y)
      d(Y, D) == D + L(Y)
      s(Y, D) == 211728000 + MulMod(129384710, y(Y)) + MulMod(13176396, d(Y, D))
      h(Y, D) == 279974000 - MulMod(238710, y(Y)) + MulMod(985647, d(Y, D))
      p(Y, D) == 83298000 + MulMod(40662290, y(Y)) + MulMod(111404, d(Y, D))
      N(Y, D) == 125071000 - MulMod(19328120, y(Y)) - MulMod(52954, d(Y, D))
  IN Only({ [s |-> mod360(Dbl(s(Y, D))).u, h |-> mod360(Dbl(h(Y, D))).u,
             p |-> mod360(Dbl(p(Y, D))).u, N |-> mod360(Dbl(N(Y, D))).u] :
              Y \in {getUTCFullYear(dateUTC)}, D \in {dayOfYear0(dateUTC)} })

\* rate * tHours in micro-degrees: rate7 is the hourly rate in 1e-7 degrees,
\* tMs is tHours * HOUR_MS.
RateTimesHours(rate7, tMs) == DivT(MulE6(rate7, tMs), 36)

\* 15.0 * tHours in micro-degrees.
FifteenTimesHours(tMs) == Sgn(tMs) * ((Abs(tMs) \div 6) * 25 + ((Abs(tMs) % 6) * 25) \div 6)

\* advanceArgs with N advanced at its hourly rate, like s, h and p.
advanceArgs_NodeDrift(base, tMs) ==
  [T |-> mod360(Dbl(180 * UDEG + FifteenTimesHours(tMs))).u,
   s |-> mod360(Dbl(base.s + RateTimesHours(5490165, tMs))).u,
   h |-> mod360(Dbl(base.h + RateTimesHours(410687, tMs))).u,
   p |-> mod360(Dbl(base.p + RateTimesHours(46418, tMs))).u,
   N |-> mod360(Dbl(base.N - RateTimesHours(22064, tMs))).u]

\* advanceArgs with T counted from 0 degrees at 0:00.
advanceArgs_FromZero(base, tMs) ==
  [T |-> mod360(Dbl(FifteenTimesHours(tMs))).u,
   s |-> mod360(Dbl(base.s + RateTimesHours(5490165, tMs))).u,
   h |-> mod360(Dbl(base.h + RateTimesHours(410687, tMs))).u,
   p |-> mod360(Dbl(base.p + RateTimesHours(46418, tMs))).u,
   N |-> base.N]

advanceArgs(base, tMs) ==
  LET T0 == 180 * UDEG
  IN [T |-> mod360(Dbl(T0 + FifteenTimesHours(tMs))).u,
      s |-> mod360(Dbl(base.s + RateTimesHours(5490165, tMs))).u,
      h |-> mod360(Dbl(base.h + RateTimesHours(410687, tMs))).u,
      p |-> mod360(Dbl(base.p + RateTimesHours(46418, tMs))).u,
      N |-> base.N]

\* rate * tHours for a rate given in 1e-8 degrees per hour.
RateTimesHours8(rate8, tMs) ==
  RateTimesHours(rate8 \div 10, tMs) + DivT(MulE6(rate8 % 10, tMs), 360)

advanceArgs2(base, tMs) ==
  [T |-> mod360(Dbl(180 * UDEG + FifteenTimesHours(tMs))).u,
   s |-> mod360(Dbl(base.s + RateTimesHours8(54901652, tMs))).u,
   h |-> mod360(Dbl(base.h + RateTimesHours8(4106864, tMs))).u,
   p |-> mod360(Dbl(base.p + RateTimesHours8(464181, tMs))).u,
   N |-> base.N]

\* nodalFU with M2's correction applied to every id.
nodalFU_AllM2(id, Ndeg) ==
  [f |-> 1000400 + MulE6(37300, cosd(Ndeg)) + MulE6(200, cosd(2 * Ndeg)),
   u |-> MulE6(-2140000, sind(Ndeg))]

nodalFU(id, Ndeg) ==
  LET COSN == cosd(Ndeg)
      COS2 == cosd(2 * Ndeg)
      COS3 == cosd(3 * Ndeg)
      SINN == sind(Ndeg)
      SIN2 == sind(2 * Ndeg)
      SIN3 == sind(3 * Ndeg)
  IN CASE id = "O1" ->
            [f |-> 1008900 + MulE6(187100, COSN) - MulE6(14700, COS2) + MulE6(1400, COS3),
             u |-> MulE6(10800000, SINN) - MulE6(1340000, SIN2) + MulE6(190000, SIN3)]
       [] id = "K1" ->
            [f |-> 1006000 + MulE6(115000, COSN) - MulE6(8800, COS2) + MulE6(600, COS3),
             u |-> MulE6(-8860000, SINN) + MulE6(680000, SIN2) - MulE6(70000, SIN3)]
       [] id = "M2" ->
            [f |-> 1000400 + MulE6(37300, COSN) + MulE6(200, COS2),
             u |-> MulE6(-2140000, SINN)]
       [] id = "K2" ->
            [f |-> 1024100 + MulE6(286300, COSN) + MulE6(8300, COS2) - MulE6(1500, COS3),
             u |-> MulE6(-17740000, SINN) + MulE6(680000, SIN2) - MulE6(40000, SIN3)]
       [] OTHER -> [f |-> E6, u |-> 0]

nodalFU2(constituent, Ndeg) ==
  LET COSN == cosd(Ndeg)
      COS2 == cosd(2 * Ndeg)
      COS3 == cosd(3 * Ndeg)
      SINN == sind(Ndeg)
      SIN2 == sind(2 * Ndeg)
      SIN3 == sind(3 * Ndeg)
  IN CASE constituent = "O1" ->
            [f |-> 1008900 + MulE6(187100, COSN) - MulE6(14700, COS2) + MulE6(600, COS3),
             u |-> MulE6(-8860000, SINN) + MulE6(680000, SIN2) + MulE6(-70000, SIN3)]
       [] constituent = "K1" ->
            [f |-> 1006000 + MulE6(115000, COSN) - MulE6(8800, COS2) + MulE6(1600, COS3),
             u |-> MulE6(-12940000, SINN) + MulE6(1340000, SIN2) + MulE6(-190000, SIN3)]
       [] constituent = "M2" ->
            [f |-> 1000400 + MulE6(-37300, COSN) + MulE6(200, COS2),
             u |-> MulE6(-2140000, SINN)]
       [] constituent = "K2" ->
            [f |-> 1024100 + MulE6(286300, COSN) + MulE6(8300, COS2) + MulE6(-1500, COS3),
             u |-> MulE6(-17740000, SINN) + MulE6(680000, SIN2) + MulE6(-40000, SIN3)]
       [] OTHER -> [f |-> E6, u |-> 0]

----------------------------------------------------------------------------
(* Profiles.  An optional field (read with ?? in the code) is [has, v].    *)
(* The field frozen holds the objects of the profile that Object.freeze    *)
(* has been called on: "params" (the profile object), "seasonalMeanModel", *)
(* "annual", "semiannual", "constituents" (the array), "constituent" (each *)
(* element of the array) and "a" (each element's coefficient array).       *)

NoNum == [has |-> FALSE, v |-> 0]
Num(v) == [has |-> TRUE, v |-> v]
NoStr == [has |-> FALSE, v |-> ""]
\* A property set to null: the operator ?? treats it as it treats a missing one.
NullStr == [has |-> FALSE, v |-> "null"]
Str(v) == [has |-> TRUE, v |-> v]
OrElse(opt, dflt) == IF opt.has THEN opt.v ELSE dflt

Constituent(id, H_cm, kappa_deg, a) ==
  [id |-> id, H_cm |-> H_cm, kappa_deg |-> kappa_deg, v0_deg |-> NoNum, a |-> a]

NoSeasonal ==
  [has |-> FALSE, type |-> "", tzOffsetMinutes |-> 0,
   annual |-> [amp_cm |-> 0, phase_deg |-> 0],
   semiannual |-> [amp_cm |-> 0, phase_deg |-> 0]]

\* The default profile of the first definition, before any write to it.
\* Object.freeze is called at lines 130, 145, 148, 149 and 152; the six
\* constituent objects and their a arrays are plain literals (lines 155-160).
ITSUKUSHIMA_PARAMS ==
  [name |-> "Itsukushima (Miyajima) - JCG harmonic constants",
   frozen |-> {"params", "seasonalMeanModel", "annual", "semiannual", "constituents"},
   phaseConvention |-> Str("cos"),
   referenceLongitude_deg |-> Num(132 * UDEG + (19 * UDEG) \div 60),
   seasonalMeanModel |->
     [has |-> TRUE, type |-> "annual+semiannual", tzOffsetMinutes |-> 540,
      annual |-> [amp_cm |-> 16600000, phase_deg |-> -131930000],
      semiannual |-> [amp_cm |-> 2020000, phase_deg |-> -170640000]],
   Z0_cm |-> 200 * E6,
   constituents |->
     << Constituent("O1", 24000000, 201 * UDEG, <<1, -2, 1, 0, 0>>),
        Constituent("P1", 10300000, 219 * UDEG, <<1, 0, -1, 0, 0>>),
        Constituent("K1", 31000000, 219 * UDEG, <<1, 0, 1, 0, 0>>),
        Constituent("M2", 103000000, 277 * UDEG, <<2, -2, 2, 0, 0>>),
        Constituent("S2", 40000000, 310 * UDEG, <<2, 0, 0, 0, 0>>),
        Constituent("K2", 10900000, 310 * UDEG, <<2, 0, 2, 0, 0>>) >>]

\* Object.freeze on a copy of the profile, on the mapped constituents array,
\* on the copy of each constituent and on the copy of each a array.
freezeParams(params) ==
  [params EXCEPT !.frozen = {"params", "constituents", "constituent", "a"}]

\* The default profile of the second definition.
ITSUKUSHIMA_PARAMS2 ==
  freezeParams(
    [name |-> "Itsukushima (Miyajima)",
     frozen |-> {},
     Z0_cm |-> 200 * E6,
     constituents |->
       << Constituent("O1", 24000000, 201 * UDEG, <<1, 1, 0, 0>>),
          Constituent("P1", 10300000, 219 * UDEG, <<1, 0, -1, 0>>),
          Constituent("K1", 31000000, 219 * UDEG, <<1, 0, 1, 0>>),
          Constituent("M2", 103000000, 277 * UDEG, <<2, -2, 0, 0>>),
          Constituent("S2", 40000000, 310 * UDEG, <<2, 0, 0, 0>>),
          Constituent("K2", 10900000, 310 * UDEG, <<2, 0, 2, 0>>) >>])

----------------------------------------------------------------------------
(* Evaluation.  A call's outcome is [kind, cm, samples]: kind "number"     *)
(* (cm returned), "array" (samples returned) or the class of the error     *)
(* thrown.                                                                 *)

Ok(cm) == [kind |-> "number", cm |-> cm, samples |-> <<>>]
Returned(samples) == [kind |-> "array", cm |-> 0, samples |-> samples]
Throw(class) == [kind |-> class, cm |-> 0, samples |-> <<>>]

\* An error thrown by the validation of an argument: its class and the
\* argument that its message names.
Rejected(class, argument) == ("argument" :> argument) @@ Throw(class)

\* The identifiers that resolve inside seasonalMeanAnomalyCm: its parameters,
\* its own consts up to the line being evaluated, and the module's bindings.
SeasonalScope ==
  {"dateUtc", "model", "JST_OFFSET_MINUTES",
   "DEG", "MINUTE_MS", "HOUR_MS", "DAY_MS", "mod360", "cosd", "sind",
   "doyFractionInTz", "utcMidnightMs", "dayOfYear0", "astroArgsAtUTMidnight",
   "advanceArgs", "nodalFU", "seasonalMeanAnomalyCm", "ITSUKUSHIMA_PARAMS",
   "heightCmAtUTCWithDayCtx", "createDayContext", "heightCmAtUTC",
   "seriesCmAtUTC", "MiyajimaTide", "Math", "Date", "Number", "Object"}

\* Line 121 reads the identifier tzOffsetMinutes, which nothing declares:
\* the read throws ReferenceError and lines 122-127 are never reached.
seasonalMeanAnomalyCm(dateUtc, model) ==
  IF ~model.has THEN Ok(0)
  ELSE IF model.type # "annual+semiannual" THEN Ok(0)
  ELSE IF "tzOffsetMinutes" \notin SeasonalScope THEN Throw("ReferenceError")
  ELSE Ok(0)

\* One pass of the loop over the constituents (lines 177-198), from index i.
RECURSIVE Accumulate(_, _, _, _, _, _, _)
Accumulate(eta, i, params, fu, args, T, phaseConvention) ==
  IF i > Len(params.constituents) THEN eta
  ELSE
    LET V(c) == c.a[1] * T + c.a[2] * args.s + c.a[3] * args.h + c.a[4] * args.p
                  + c.a[5] * args.N
        v0(c) == OrElse(c.v0_deg, 0)
        phase(c, u) == mod360(Dbl(V(c) + v0(c) + u - c.kappa_deg)).u
        term(c, f, u) ==
          IF phaseConvention = "sin" THEN MulE6(MulE6(f, c.H_cm), sind(phase(c, u)))
          ELSE MulE6(MulE6(f, c.H_cm), cosd(phase(c, u)))
    IN Only({ Accumulate(sum, i + 1, params, fu, args, T, phaseConvention) :
                sum \in { eta + term(c, n.f, n.u) :
                            c \in {params.constituents[i]}, n \in {fu[i]} } })

\* heightCmAtUTCWithDayCtx with the cosine applied whatever the convention.
heightCmAtUTCWithDayCtx_CosOnly(dateUtc, params, dayCtx) ==
  LET tMs == MsBetween(dateUtc, dayCtx.midnightMs)
      T(args) == mod360(Dbl(args.T + OrElse(params.referenceLongitude_deg, 0))).u
      seasonal == seasonalMeanAnomalyCm(dateUtc, params.seasonalMeanModel)
      phaseConvention == OrElse(params.phaseConvention, "cos")
  IN IF seasonal.kind # "number" THEN seasonal
     ELSE IF phaseConvention # "sin" /\ phaseConvention # "cos" THEN Throw("Error")
     ELSE Only({ Ok(Accumulate(params.Z0_cm + seasonal.cm, 1, params, dayCtx.fu, args,
                               T(args), "cos")) :
                   args \in {advanceArgs(dayCtx.base, tMs)} })

\* heightCmAtUTCWithDayCtx with args.T used as it is.
heightCmAtUTCWithDayCtx_NoLongitude(dateUtc, params, dayCtx) ==
  LET tMs == MsBetween(dateUtc, dayCtx.midnightMs)
      seasonal == seasonalMeanAnomalyCm(dateUtc, params.seasonalMeanModel)
      phaseConvention == OrElse(params.phaseConvention, "cos")
  IN IF seasonal.kind # "number" THEN seasonal
     ELSE IF phaseConvention # "sin" /\ phaseConvention # "cos" THEN Throw("Error")
     ELSE Only({ Ok(Accumulate(params.Z0_cm + seasonal.cm, 1, params, dayCtx.fu, args,
                               args.T, phaseConvention)) :
                   args \in {advanceArgs(dayCtx.base, tMs)} })

\* heightCmAtUTCWithDayCtx reading params.phaseConvention without a default:
\* a missing convention is neither "sin" nor "cos".
heightCmAtUTCWithDayCtx_NoDefault(dateUtc, params, dayCtx) ==
  LET tMs == MsBetween(dateUtc, dayCtx.midnightMs)
      T(args) == mod360(Dbl(args.T + OrElse(params.referenceLongitude_deg, 0))).u
      seasonal == seasonalMeanAnomalyCm(dateUtc, params.seasonalMeanModel)
      phaseConvention == OrElse(params.phaseConvention, "undefined")
  IN IF seasonal.kind # "number" THEN seasonal
     ELSE IF phaseConvention # "sin" /\ phaseConvention # "cos" THEN Throw("Error")
     ELSE Only({ Ok(Accumulate(params.Z0_cm + seasonal.cm, 1, params, dayCtx.fu, args,
                               T(args), phaseConvention)) :
                   args \in {advanceArgs(dayCtx.base, tMs)} })

\* Lines 164-200.
heightCmAtUTCWithDayCtx(dateUtc, params, dayCtx) ==
  LET tMs == MsBetween(dateUtc, dayCtx.midnightMs)
      T(args) == mod360(Dbl(args.T + OrElse(params.referenceLongitude_deg, 0))).u
      seasonal == seasonalMeanAnomalyCm(dateUtc, params.seasonalMeanModel)
      phaseConvention == OrElse(params.phaseConvention, "cos")
  IN IF seasonal.kind # "number" THEN seasonal
     ELSE IF phaseConvention # "sin" /\ phaseConvention # "cos" THEN Throw("Error")
     ELSE Only({ Ok(Accumulate(params.Z0_cm + seasonal.cm, 1, params, dayCtx.fu, args,
                               T(args), phaseConvention)) :
                   args \in {advanceArgs(dayCtx.base, tMs)} })

\* The loop of the second definition (lines 434-443), from index i.
RECURSIVE Accumulate2(_, _, _, _, _)
Accumulate2(eta, i, params, fu, args) ==
  IF i > Len(params.constituents) THEN eta
  ELSE
    LET V(c) == c.a[1] * args.T + c.a[2] * args.s + c.a[3] * args.h + c.a[4] * args.p
        phase(c, u) == mod360(Dbl(V(c) + u - c.kappa_deg)).u
        term(c, f, u) == MulE6(MulE6(f, c.H_cm), cosd(phase(c, u)))
    IN Only({ Accumulate2(sum, i + 1, params, fu, args) :
                sum \in { eta + term(c, n.f, n.u) :
                            c \in {params.constituents[i]}, n \in {fu[i]} } })

heightCmAtUTCWithDayCtx2(dateUtc, params, dayCtx) ==
  LET tMs == MsBetween(dateUtc, dayCtx.midnightMs)
  IN Only({ Ok(Accumulate2(params.Z0_cm, 1, params, dayCtx.fu, args)) :
              args \in {advanceArgs2(dayCtx.base, tMs)} })

NoCtx == [null |-> TRUE]

createDayContext(midnightMs, params) ==
  Only({ [midnightMs |-> midnightMs,
          base |-> base,
          fu |-> [i \in 1..Len(params.constituents) |->
                    nodalFU(params.constituents[i].id, base.N)]] :
           base \in {astroArgsAtUTMidnight(midnightMs)} })

createDayContext2(midnightMs, params) ==
  Only({ [midnightMs |-> midnightMs,
          base |-> base,
          fu |-> [i \in 1..Len(params.constituents) |->
                    nodalFU2(params.constituents[i].id, base.N)]] :
           base \in {astroArgsAtUTMidnight(midnightMs)} })

\* IsValidDate without the Number.isNaN test.
IsValidDate_InstanceOnly(date) == date.k # "NotDate"

\* dateUtc instanceof Date && !Number.isNaN(dateUtc.getTime())
IsValidDate(date) == date.k = "Date"

heightCmAtUTC(dateUtc, params) ==
  IF ~IsValidDate(dateUtc) THEN Throw("TypeError")
  ELSE Only({ heightCmAtUTCWithDayCtx(dateUtc, params, ctx) :
                ctx \in { createDayContext(midnightMs, params) :
                            midnightMs \in {utcMidnightMs(dateUtc)} } })

\* The class of the error assertValidDate throws, or "ok".
assertValidDate(date) == IF ~IsValidDate(date) THEN "TypeError" ELSE "ok"

heightCmAtUTC2(dateUtc, params) ==
  IF assertValidDate(dateUtc) # "ok" THEN Throw(assertValidDate(dateUtc))
  ELSE Only({ heightCmAtUTCWithDayCtx2(dateUtc, params, ctx) :
                ctx \in { createDayContext2(midnightMs, params) :
                            midnightMs \in {utcMidnightMs(dateUtc)} } })

\* The number of createDayContext calls a heightCmAtUTC call makes: the
\* throw for an invalid dateUtc comes before the one call.
heightCmAtUTCBuilds(dateUtc) == IF ~IsValidDate(dateUtc) THEN 0 ELSE 1

----------------------------------------------------------------------------
(* Arguments.  A Date argument is [k, day, ms] with k "Date" (a valid      *)
(* instant), "InvalidDate" (getTime() is NaN) or "NotDate" (instanceof     *)
(* Date is false).  A number argument is [k, v] with k "number" (finite,   *)
(* v whole minutes), "NaN", "Infinity", "string" (typeof is not "number")  *)
(* or "undefined" (the argument is omitted).                               *)

DateAt(day, ms) == [k |-> "Date", day |-> day, ms |-> ms]
InvalidDate == [k |-> "InvalidDate", day |-> 0, ms |-> 0]
NotDate == [k |-> "NotDate", day |-> 0, ms |-> 0]

Number(v) == [k |-> "number", v |-> v]
NaN == [k |-> "NaN", v |-> 0]
Infinity == [k |-> "Infinity", v |-> 0]
AString == [k |-> "string", v |-> 0]
Undefined == [k |-> "undefined", v |-> 0]

IsNumberType(x) == x.k \in {"number", "NaN", "Infinity"}
IsFinite(x) == x.k = "number"

\* The params argument: omitted (the default parameter applies) or a profile.
Omitted == [given |-> FALSE, p |-> NoSeasonal]
Given(p) == [given |-> TRUE, p |-> p]

\* The class of the error assertFiniteNumber throws, or "ok".
assertFiniteNumber(n) == IF ~IsNumberType(n) \/ ~IsFinite(n) THEN "TypeError" ELSE "ok"

Libs == {1, 2}

VARIABLES
  lib,        \* the definition of the library that is loaded
  defaults,   \* the object ITSUKUSHIMA_PARAMS, as writes have left it
  pc,         \* "idle", or "loop" inside seriesCmAtUTC's for loop
  call,       \* the arguments of the call in progress or last made
  i,          \* seriesCmAtUTC: the loop index
  out,        \* seriesCmAtUTC: the samples pushed so far
  dayCtx,     \* seriesCmAtUTC: the cached DayContext, NoCtx for null
  built,      \* history: createDayContext calls of the call in progress or last made
  result,     \* the outcome of the last call
  attempt,    \* the last write attempted on the default profile
  writes,     \* the number of write attempts made
  seen,       \* history: one earlier heightCmAtUTC call and its outcome
  deg,        \* the argument of the last mod360 evaluation
  norm,       \* mod360(deg) and mod360(mod360(deg))
  probe       \* the last evaluation of an internal function: its inputs and outputs

vars ==
  <<lib, defaults, pc, call, i, out, dayCtx, built, result, attempt, writes, seen, deg, norm,
    probe>>

NoCall ==
  [op |-> "none", date |-> NotDate, minutes |-> Undefined, stepMinutes |-> Undefined,
   params |-> NoSeasonal]
NoResult == [kind |-> "none", cm |-> 0, samples |-> <<>>]
Pending == [kind |-> "pending", cm |-> 0, samples |-> <<>>]
NoAttempt == [object |-> "none", index |-> 0, property |-> "", took |-> FALSE]
NothingSeen == [kind |-> "none"]
NoProbe == [kind |-> "none"]

\* The history after a call: other becomes TRUE once a call with other
\* arguments, or a seriesCmAtUTC call, follows the recorded call.
Follow(dateUtc, params, same) ==
  IF seen = NothingSeen THEN seen
  ELSE IF same /\ seen.date = dateUtc /\ seen.params = params THEN seen
  ELSE [seen EXCEPT !.other = TRUE]

Init ==
  /\ lib \in Libs
  /\ defaults = IF lib = 1 THEN ITSUKUSHIMA_PARAMS ELSE ITSUKUSHIMA_PARAMS2
  /\ pc = "idle"
  /\ call = NoCall
  /\ i = 0
  /\ out = <<>>
  /\ dayCtx = NoCtx
  /\ built = 0
  /\ result = NoResult
  /\ attempt = NoAttempt
  /\ writes = 0
  /\ seen = NothingSeen
  /\ deg = Dbl(0)
  /\ norm = [once |-> Dbl(0), twice |-> Dbl(0)]
  /\ probe = NoProbe

\* params = ITSUKUSHIMA_PARAMS: the default parameter value.
Effective(pArg) == IF pArg.given THEN pArg.p ELSE defaults

----------------------------------------------------------------------------
(* heightCmAtUTC(dateUtc, params).  remember: the history variable records *)
(* this call when it has recorded none yet.                                *)

\* CallHeight with the value of the last call kept per profile and returned
\* for any instant.
CallHeight_Memo(dateUtc, pArg, remember) ==
  /\ pc = "idle"
  /\ \E params \in {Effective(pArg)} :
       \E r \in {IF call.op = "heightCmAtUTC" /\ call.params = params
                    /\ result.kind = "number" /\ IsValidDate(dateUtc)
                 THEN result
                 ELSE IF lib = 1 THEN heightCmAtUTC(dateUtc, params)
                 ELSE heightCmAtUTC2(dateUtc, params)} :
         /\ result' = r
         /\ call' = [op |-> "heightCmAtUTC", date |-> dateUtc, minutes |-> Undefined,
                     stepMinutes |-> Undefined, params |-> params]
         /\ seen' = IF remember /\ seen = NothingSeen
                    THEN [kind |-> "call", date |-> dateUtc, params |-> params,
                          result |-> r, other |-> FALSE]
                    ELSE Follow(dateUtc, params, TRUE)
  /\ built' = heightCmAtUTCBuilds(dateUtc)
  /\ UNCHANGED <<lib, defaults, pc, i, out, dayCtx, attempt, writes, deg, norm, probe>>

CallHeight(dateUtc, pArg, remember) ==
  /\ pc = "idle"
  /\ \E params \in {Effective(pArg)} :
       \E r \in {IF lib = 1 THEN heightCmAtUTC(dateUtc, params)
                 ELSE heightCmAtUTC2(dateUtc, params)} :
         /\ result' = r
         /\ call' = [op |-> "heightCmAtUTC", date |-> dateUtc, minutes |-> Undefined,
                     stepMinutes |-> Undefined, params |-> params]
         /\ seen' = IF remember /\ seen = NothingSeen
                    THEN [kind |-> "call", date |-> dateUtc, params |-> params,
                          result |-> r, other |-> FALSE]
                    ELSE Follow(dateUtc, params, TRUE)
  /\ built' = heightCmAtUTCBuilds(dateUtc)
  /\ UNCHANGED <<lib, defaults, pc, i, out, dayCtx, attempt, writes, deg, norm, probe>>

----------------------------------------------------------------------------
(* seriesCmAtUTC(startDateUtc, minutes, stepMinutes, params).              *)

\* stepMinutes = 10: the default parameter value.
StepOf(stepArg) == IF stepArg.k = "undefined" THEN Number(10) ELSE stepArg

\* seriesValidate without the test minutes < 0.
seriesValidate_NoSignTest(startDateUtc, minutes, stepMinutes) ==
  IF ~IsValidDate(startDateUtc) THEN "TypeError"
  ELSE IF ~IsNumberType(minutes) \/ ~IsFinite(minutes) THEN "TypeError"
  ELSE IF ~IsNumberType(stepMinutes) \/ ~IsFinite(stepMinutes) \/ stepMinutes.v <= 0
       THEN "TypeError"
  ELSE "ok"

\* Lines 226-234: the class of the error thrown, or "ok".
seriesValidate(startDateUtc, minutes, stepMinutes) ==
  IF ~IsValidDate(startDateUtc) THEN "TypeError"
  ELSE IF ~IsNumberType(minutes) \/ ~IsFinite(minutes) \/ minutes.v < 0 THEN "TypeError"
  ELSE IF ~IsNumberType(stepMinutes) \/ ~IsFinite(stepMinutes) \/ stepMinutes.v <= 0
       THEN "TypeError"
  ELSE "ok"

\* Lines 478-482 of the second definition.
seriesValidate2(startDateUtc, minutes, stepMinutes) ==
  IF assertValidDate(startDateUtc) # "ok" THEN assertValidDate(startDateUtc)
  ELSE IF assertFiniteNumber(minutes) # "ok" THEN assertFiniteNumber(minutes)
  ELSE IF assertFiniteNumber(stepMinutes) # "ok" THEN assertFiniteNumber(stepMinutes)
  ELSE IF minutes.v < 0 THEN "RangeError"
  ELSE IF stepMinutes.v <= 0 THEN "RangeError"
  ELSE "ok"

\* seriesThrowsFor with the step tested before the duration.
seriesThrowsFor_StepFirst(startDateUtc, minutes, stepMinutes) ==
  IF ~IsValidDate(startDateUtc) THEN "startDateUtc"
  ELSE IF ~IsNumberType(stepMinutes) \/ ~IsFinite(stepMinutes) \/ stepMinutes.v <= 0
       THEN "stepMinutes"
  ELSE IF ~IsNumberType(minutes) \/ ~IsFinite(minutes) \/ minutes.v < 0 THEN "minutes"
  ELSE "none"

\* Lines 226-234: the argument that the message of the error thrown names,
\* or "none".
seriesThrowsFor(startDateUtc, minutes, stepMinutes) ==
  IF ~IsValidDate(startDateUtc) THEN "startDateUtc"
  ELSE IF ~IsNumberType(minutes) \/ ~IsFinite(minutes) \/ minutes.v < 0 THEN "minutes"
  ELSE IF ~IsNumberType(stepMinutes) \/ ~IsFinite(stepMinutes) \/ stepMinutes.v <= 0
       THEN "stepMinutes"
  ELSE "none"

\* Lines 479-483 of the second definition: the types of all three arguments
\* are tested before the sign of any.
seriesThrowsFor2(startDateUtc, minutes, stepMinutes) ==
  IF assertValidDate(startDateUtc) # "ok" THEN "startDateUtc"
  ELSE IF assertFiniteNumber(minutes) # "ok" THEN "minutes"
  ELSE IF assertFiniteNumber(stepMinutes) # "ok" THEN "stepMinutes"
  ELSE IF minutes.v < 0 THEN "minutes"
  ELSE IF stepMinutes.v <= 0 THEN "stepMinutes"
  ELSE "none"

\* The loop bound of for (i = 0; i < n; i++).
LastIndex_Exclusive(c) == (c.minutes.v \div c.stepMinutes.v) - 1

\* Math.floor(minutes / stepMinutes)
LastIndex(c) == c.minutes.v \div c.stepMinutes.v

\* CallSeries with the DayContext kept in a variable of the module: the
\* context of the last sample of the call before is the cached one.
CallSeries_CachedCtx(startDateUtc, minutes, stepArg, pArg) ==
  /\ pc = "idle"
  /\ LET stepMinutes == StepOf(stepArg)
         v == IF lib = 1 THEN seriesValidate(startDateUtc, minutes, stepMinutes)
              ELSE seriesValidate2(startDateUtc, minutes, stepMinutes)
         named == IF lib = 1 THEN seriesThrowsFor(startDateUtc, minutes, stepMinutes)
                  ELSE seriesThrowsFor2(startDateUtc, minutes, stepMinutes)
     IN /\ call' = [op |-> "seriesCmAtUTC", date |-> startDateUtc, minutes |-> minutes,
                    stepMinutes |-> stepMinutes, params |-> Effective(pArg)]
        /\ pc' = IF v = "ok" THEN "loop" ELSE "idle"
        /\ result' = IF v = "ok" THEN Pending ELSE Rejected(v, named)
        /\ seen' = Follow(startDateUtc, Effective(pArg), FALSE)
        /\ dayCtx' = IF v = "ok" /\ result.kind = "array" /\ Len(result.samples) > 0
                     THEN IF lib = 1
                          THEN createDayContext(
                                 utcMidnightMs(result.samples[Len(result.samples)].tUTC),
                                 call.params)
                          ELSE createDayContext2(
                                 utcMidnightMs(result.samples[Len(result.samples)].tUTC),
                                 call.params)
                     ELSE NoCtx
  /\ i' = 0
  /\ out' = <<>>
  /\ built' = 0
  /\ UNCHANGED <<lib, defaults, attempt, writes, deg, norm, probe>>

\* Lines 226-241: validation, then the loop's initial state.
CallSeries(startDateUtc, minutes, stepArg, pArg) ==
  /\ pc = "idle"
  /\ LET stepMinutes == StepOf(stepArg)
         v == IF lib = 1 THEN seriesValidate(startDateUtc, minutes, stepMinutes)
              ELSE seriesValidate2(startDateUtc, minutes, stepMinutes)
         named == IF lib = 1 THEN seriesThrowsFor(startDateUtc, minutes, stepMinutes)
                  ELSE seriesThrowsFor2(startDateUtc, minutes, stepMinutes)
     IN /\ call' = [op |-> "seriesCmAtUTC", date |-> startDateUtc, minutes |-> minutes,
                    stepMinutes |-> stepMinutes, params |-> Effective(pArg)]
        /\ pc' = IF v = "ok" THEN "loop" ELSE "idle"
        /\ result' = IF v = "ok" THEN Pending ELSE Rejected(v, named)
        /\ seen' = Follow(startDateUtc, Effective(pArg), FALSE)
  /\ i' = 0
  /\ out' = <<>>
  /\ dayCtx' = NoCtx
  /\ built' = 0
  /\ UNCHANGED <<lib, defaults, attempt, writes, deg, norm, probe>>

\* Line 244-245: d = new Date(startMs + i * stepMs).
SampleInstant(c, k) ==
  LET stepMs == c.stepMinutes.v * MINUTE_MS
      t == PlusMs(c.date, k * stepMs)
  IN DateAt(t.day, t.ms)

\* NeedsRebuild answering yes for every sample.
NeedsRebuild_Always(ctx, midMs) == TRUE

\* NeedsRebuild without the comparison of midnights.
NeedsRebuild_OnlyWhenNull(ctx, midMs) == ctx = NoCtx

\* Line 248: the cached context is missing or is another day's.
NeedsRebuild(ctx, midMs) == ctx = NoCtx \/ ctx.midnightMs # midMs

\* Lines 243-253: one iteration of the loop; an error thrown by the
\* evaluation leaves seriesCmAtUTC, and out is dropped with its frame.
SeriesStep ==
  /\ pc = "loop"
  /\ i <= LastIndex(call)
  /\ \E d \in {SampleInstant(call, i)} :
       \E midMs \in {utcMidnightMs(d)} :
         \E ctx \in {IF ~NeedsRebuild(dayCtx, midMs) THEN dayCtx
                      ELSE IF lib = 1 THEN createDayContext(midMs, call.params)
                      ELSE createDayContext2(midMs, call.params)} :
           \E h \in {IF lib = 1 THEN heightCmAtUTCWithDayCtx(d, call.params, ctx)
                     ELSE heightCmAtUTCWithDayCtx2(d, call.params, ctx)} :
             /\ built' = IF NeedsRebuild(dayCtx, midMs) THEN built + 1 ELSE built
             /\ IF h.kind = "number"
                THEN /\ out' = Append(out, [tUTC |-> d, cm |-> h.cm])
                     /\ dayCtx' = ctx
                     /\ i' = i + 1
                     /\ UNCHANGED <<pc, result>>
                ELSE /\ result' = h
                     /\ pc' = "idle"
                     /\ out' = <<>>
                     /\ dayCtx' = NoCtx
                     /\ i' = 0
  /\ UNCHANGED <<lib, defaults, call, attempt, writes, seen, deg, norm, probe>>

\* Line 255: return out.
SeriesReturn ==
  /\ pc = "loop"
  /\ i > LastIndex(call)
  /\ result' = Returned(out)
  /\ pc' = "idle"
  /\ out' = <<>>
  /\ dayCtx' = NoCtx
  /\ i' = 0
  /\ UNCHANGED <<lib, defaults, call, built, attempt, writes, seen, deg, norm, probe>>

----------------------------------------------------------------------------
(* Writes to the default profile.  The module is strict-mode code: an      *)
(* assignment to a property of a frozen object throws and stores nothing;  *)
(* an assignment to a property of any other object stores the value.       *)

\* A write target: the object written to, which constituent it belongs to
\* (index, 1-based), the property, and for an array the element (slot).
Target(object, index, property, slot) ==
  [object |-> object, index |-> index, property |-> property, slot |-> slot]

Store(p, t, v) ==
  CASE t.object = "params" -> [p EXCEPT !.Z0_cm = v]
    [] t.object = "seasonalMeanModel" -> [p EXCEPT !.seasonalMeanModel.tzOffsetMinutes = v]
    [] t.object = "annual" -> [p EXCEPT !.seasonalMeanModel.annual.amp_cm = v]
    [] t.object = "semiannual" -> [p EXCEPT !.seasonalMeanModel.semiannual.amp_cm = v]
    [] t.object = "constituents" ->
         [p EXCEPT !.constituents[t.index] = Constituent("X", v, v, <<v, v, v, v, v>>)]
    [] t.object = "constituent" /\ t.property = "H_cm" ->
         [p EXCEPT !.constituents[t.index].H_cm = v]
    [] t.object = "constituent" /\ t.property = "kappa_deg" ->
         [p EXCEPT !.constituents[t.index].kappa_deg = v]
    [] t.object = "a" -> [p EXCEPT !.constituents[t.index].a[t.slot] = v]

Assign(p, t, v) == IF t.object \in p.frozen THEN p ELSE Store(p, t, v)

MaxWrites == 2

Targets ==
  {Target("params", 0, "Z0_cm", 0), Target("seasonalMeanModel", 0, "tzOffsetMinutes", 0),
   Target("annual", 0, "amp_cm", 0), Target("semiannual", 0, "amp_cm", 0)}
  \cup {Target("constituents", j, "element", 0) : j \in 1..Len(ITSUKUSHIMA_PARAMS.constituents)}
  \cup {Target("constituent", j, q, 0) :
          j \in 1..Len(ITSUKUSHIMA_PARAMS.constituents), q \in {"H_cm", "kappa_deg"}}
  \cup {Target("a", j, "element", k) :
          j \in 1..Len(ITSUKUSHIMA_PARAMS.constituents), k \in 1..5}

\* The second definition's profile has no seasonal model and four
\* coefficients in each a.
Targets2 ==
  {t \in Targets : t.object \in {"params", "constituents", "constituent", "a"} /\ t.slot <= 4}

Write(t, v) ==
  /\ pc = "idle"
  /\ writes < MaxWrites
  /\ defaults' = Assign(defaults, t, v)
  /\ attempt' = [object |-> t.object, index |-> t.index, property |-> t.property,
                 took |-> Assign(defaults, t, v) # defaults]
  /\ writes' = writes + 1
  /\ UNCHANGED <<lib, pc, call, i, out, dayCtx, built, result, seen, deg, norm, probe>>

----------------------------------------------------------------------------
(* mod360 on its own.                                                      *)

Normalize(x) ==
  /\ deg' = x
  /\ norm' = [once |-> mod360(x), twice |-> mod360(mod360(x))]
  /\ UNCHANGED <<lib, defaults, pc, call, i, out, dayCtx, built, result, attempt, writes,
                 seen, probe>>

----------------------------------------------------------------------------
(* Inputs.                                                                 *)

MaxMinutes == 25
MaxQuarterTurns == 12

\* 31 December 2024, the last day of a leap year.
Eve == DayFromYear(2025) - 1

Dates == {DateAt(Eve, DAY_MS - 10 * MINUTE_MS), DateAt(Eve + 1, 0), InvalidDate, NotDate}
Durations == {AString, NaN, Number(-5), Number(0), Number(MaxMinutes)}
Steps == {Undefined, AString, Infinity, Number(-10), Number(0), Number(10)}

Profile(convention, seasonal, list) ==
  [ITSUKUSHIMA_PARAMS EXCEPT !.name = "custom", !.frozen = {},
                             !.phaseConvention = convention,
                             !.seasonalMeanModel = seasonal, !.constituents = list]

\* The default profile's constants without its seasonal model.
Plain == Profile(Str("cos"), NoSeasonal, ITSUKUSHIMA_PARAMS.constituents)

Profiles ==
  {Plain} \cup
  {Profile(c, m, l) :
     c \in {Str("sin"), Str("tan")},
     m \in {NoSeasonal, ITSUKUSHIMA_PARAMS.seasonalMeanModel},
     l \in {<<>>, SubSeq(ITSUKUSHIMA_PARAMS.constituents, 4, 5)}}

ParamArgs == {Omitted} \cup {Given(p) : p \in Profiles}

\* The argument lists of seriesCmAtUTC: every kind of start, duration and step
\* with the profile omitted, and every profile with arguments that validate.
SeriesArgs ==
  {<<d, m, st, Omitted>> : d \in Dates, m \in Durations, st \in Steps}
  \cup {<<DateAt(Eve, DAY_MS - 10 * MINUTE_MS), m, Number(10), p>> :
          m \in {Number(0), Number(MaxMinutes)}, p \in ParamArgs}

Doubles ==
  {Dbl(k * 90 * UDEG + j) : k \in (-MaxQuarterTurns)..MaxQuarterTurns, j \in -2..2}
  \cup {[u |-> 0, eps |-> -1], [u |-> 0, eps |-> 1]}

----------------------------------------------------------------------------
(* Specifications.                                                         *)

\* The library's two entry points, called in any order with any arguments.
Next ==
  \/ \E d \in Dates, p \in ParamArgs : CallHeight(d, p, FALSE)
  \/ \E a \in SeriesArgs : CallSeries(a[1], a[2], a[3], a[4])
  \/ SeriesStep
  \/ SeriesReturn

Spec == Init /\ [][Next]_vars

\* The same entry points on fewer arguments, with one heightCmAtUTC call
\* kept in the history variable.
NextDet ==
  \/ \E d \in Dates, p \in {Omitted, Given(Plain)}, r \in BOOLEAN : CallHeight(d, p, r)
  \/ \E d \in Dates \ {NotDate}, p \in {Omitted, Given(Plain)} :
       CallSeries(d, Number(MaxMinutes), Number(10), p)
  \/ SeriesStep
  \/ SeriesReturn

SpecDet == Init /\ [][NextDet]_vars

\* A caller writing to the default profile.
NextFreeze == \E t \in (IF lib = 1 THEN Targets ELSE Targets2) : Write(t, -1)

SpecFreeze == Init /\ [][NextFreeze]_vars

\* mod360 applied to a double.
NextMod == \E x \in Doubles : Normalize(x)

SpecMod == Init /\ [][NextMod]_vars

----------------------------------------------------------------------------
(* Properties.  The specification's InvalidArgument is a TypeError or a    *)
(* RangeError of the library, its ConfigurationError the Error that the    *)
(* phase-convention test throws.                                           *)

InvalidArgument == {"TypeError", "RangeError"}
ConfigurationError == {"Error"}

\* The arguments of a seriesCmAtUTC call that the specification accepts.
Accepted(c) ==
  /\ c.date.k = "Date"
  /\ c.minutes.k = "number" /\ c.minutes.v >= 0
  /\ c.stepMinutes.k = "number" /\ c.stepMinutes.v > 0

\* The profile's phase convention is one the specification recognises (the
\* second definition reads no phase convention).
Recognised(p) == lib = 2 \/ OrElse(p.phaseConvention, "cos") \in {"sin", "cos"}

SeriesEnded == pc = "idle" /\ call.op = "seriesCmAtUTC"
HeightEnded == pc = "idle" /\ call.op = "heightCmAtUTC"

\* heightCmAtUTC of the loaded definition, called on its own, returns cm.
Alone(dateUtc, params, cm) ==
  \E r \in {IF lib = 1 THEN heightCmAtUTC(dateUtc, params)
            ELSE heightCmAtUTC2(dateUtc, params)} : r.kind = "number" /\ r.cm = cm

\* C1: a seriesCmAtUTC call with a valid start, a finite duration >= 0 and a
\* finite step > 0 (and a recognised phase convention) returns exactly
\* floor(duration / step) + 1 samples, the k-th at start + k * step minutes.
C1_SampleCount ==
  (SeriesEnded /\ Accepted(call) /\ Recognised(call.params)) =>
    /\ result.kind = "array"
    /\ Len(result.samples) = (call.minutes.v \div call.stepMinutes.v) + 1
    /\ \A k \in 1..Len(result.samples) :
         result.samples[k].tUTC =
           DateAt(call.date.day + (call.date.ms + (k - 1) * call.stepMinutes.v * MINUTE_MS)
                                    \div DAY_MS,
                  (call.date.ms + (k - 1) * call.stepMinutes.v * MINUTE_MS) % DAY_MS)

\* C2: every sample a seriesCmAtUTC call has pushed or returned carries the
\* height that heightCmAtUTC returns for the sample's instant and the same
\* profile when called on its own, before and after a UTC midnight.
C2_SeriesMatchesInstant ==
  /\ \A k \in 1..Len(out) : Alone(out[k].tUTC, call.params, out[k].cm)
  /\ result.kind = "array" =>
       \A k \in 1..Len(result.samples) :
         Alone(result.samples[k].tUTC, call.params, result.samples[k].cm)

\* A returned series whose first sample lies before a UTC midnight and whose
\* last lies after it.
C2_Witness ==
  /\ SeriesEnded
  /\ result.kind = "array"
  /\ Len(result.samples) >= 3
  /\ result.samples[1].tUTC.day < result.samples[Len(result.samples)].tUTC.day
  /\ result.samples[1].tUTC.ms > 0

\* C3: called with the default profile and valid arguments, heightCmAtUTC
\* returns a number and seriesCmAtUTC returns its samples.
C3_DefaultProfileEvaluates ==
  (pc = "idle" /\ call.params = defaults) =>
    /\ (call.op = "heightCmAtUTC" /\ call.date.k = "Date") => result.kind = "number"
    /\ (call.op = "seriesCmAtUTC" /\ Accepted(call)) => result.kind = "array"

\* C4: a seriesCmAtUTC call with a duration < 0, a step <= 0 or a start that
\* is no valid instant fails with InvalidArgument, and no sample is pushed
\* or returned.
C4_SeriesRejects ==
  (call.op = "seriesCmAtUTC"
     /\ (\/ call.date.k # "Date"
         \/ (call.minutes.k = "number" /\ call.minutes.v < 0)
         \/ (call.stepMinutes.k = "number" /\ call.stepMinutes.v <= 0))) =>
    /\ pc = "idle"
    /\ result.kind \in InvalidArgument
    /\ result.samples = <<>>
    /\ out = <<>>

\* series(now, -5, 10) has failed with InvalidArgument.
C4_Witness ==
  /\ SeriesEnded
  /\ call.date.k = "Date" /\ call.minutes = Number(-5) /\ call.stepMinutes = Number(10)
  /\ result.kind \in InvalidArgument

\* C5: a heightCmAtUTC call with an invalid Date or with a value that is no
\* Date fails with InvalidArgument, and no DayContext has been built.
C5_HeightRejects ==
  (HeightEnded /\ call.date.k \in {"InvalidDate", "NotDate"}) =>
    /\ result.kind \in InvalidArgument
    /\ built = 0

\* heightCmAtUTC(new Date(NaN)) has failed before building a DayContext.
C5_Witness ==
  /\ HeightEnded
  /\ call.date = InvalidDate
  /\ result.kind \in InvalidArgument
  /\ built = 0

\* C6: under the first definition, a heightCmAtUTC or seriesCmAtUTC call
\* with valid arguments and a profile whose phaseConvention is set to a
\* value other than "cos" and "sin" fails with ConfigurationError, whatever
\* the constituents and with or without a seasonal model.
C6_UnknownConvention ==
  (/\ lib = 1
   /\ pc = "idle"
   /\ \/ call.op = "heightCmAtUTC" /\ call.date.k = "Date"
      \/ call.op = "seriesCmAtUTC" /\ Accepted(call)
   /\ ~Recognised(call.params)) =>
    result.kind \in ConfigurationError

\* C7: a seriesCmAtUTC call that has ended has either returned all
\* floor(duration / step) + 1 samples or thrown with no sample handed over;
\* while it runs, the samples pushed are those of the indices below i, each
\* computed once.
C7_AllOrNothing ==
  /\ SeriesEnded =>
       \/ /\ result.kind = "array"
          /\ Len(result.samples) = (call.minutes.v \div call.stepMinutes.v) + 1
       \/ /\ result.kind \notin {"array", "number", "pending", "none"}
          /\ result.samples = <<>>
          /\ out = <<>>
  /\ pc = "loop" =>
       /\ call.op = "seriesCmAtUTC"
       /\ result = Pending
       /\ Len(out) = i
       /\ i <= (call.minutes.v \div call.stepMinutes.v) + 1

\* A series whose arguments were accepted has thrown from the evaluation of
\* its first sample, handing over no sample.
C7_Witness ==
  /\ SeriesEnded
  /\ Accepted(call)
  /\ result.kind \in ConfigurationError
  /\ result.samples = <<>>

C9_ReadOnly == defaults = IF lib = 1 THEN ITSUKUSHIMA_PARAMS ELSE ITSUKUSHIMA_PARAMS2

\* C10: mod360(x) lies in [0, 360), is congruent to x modulo 360, and
\* mod360(mod360(x)) = mod360(x).
C10_Mod360 ==
  /\ ~IsNeg(norm.once) /\ norm.once.u < 360 * UDEG
  /\ (norm.once.u - deg.u) % (360 * UDEG) = 0
  /\ norm.twice = norm.once

----------------------------------------------------------------------------
(* The internal functions on their own.                                    *)

NodeSteps == 24

\* Constituent ids: the four that nodalFU tabulates, two of the default
\* profile that it does not, one of no profile, and the empty string.
Ids == {"O1", "K1", "M2", "K2", "P1", "S2", "N2", ""}

NodeAngles == {k * 15 * UDEG : k \in 0..NodeSteps}

\* Valid instants: ten minutes before a UTC midnight, the midnight, and noon.
Instants ==
  {DateAt(Eve, DAY_MS - 10 * MINUTE_MS), DateAt(Eve + 1, 0), DateAt(Eve + 1, 12 * HOUR_MS)}

\* A profile of one constituent with the default profile's M2 constants.
Single(id, convention) ==
  Profile(Str(convention), NoSeasonal,
          << Constituent(id, 103000000, 277 * UDEG, <<2, -2, 2, 0, 0>>) >>)

\* nodalFU(id, Ndeg) evaluated on its own.
NodalProbe(id, Ndeg) ==
  /\ pc = "idle"
  /\ probe' = [kind |-> "nodalFU", id |-> id, N |-> Ndeg,
               fu |-> IF lib = 1 THEN nodalFU(id, Ndeg) ELSE nodalFU2(id, Ndeg)]
  /\ UNCHANGED <<lib, defaults, pc, call, i, out, dayCtx, built, result, attempt, writes,
                 seen, deg, norm>>

\* heightCmAtUTC evaluated for a profile of one constituent.
SingleProbe(id, dateUtc, convention) ==
  /\ pc = "idle"
  /\ probe' = [kind |-> "single", id |-> id, date |-> dateUtc,
               params |-> Single(id, convention),
               height |-> IF lib = 1 THEN heightCmAtUTC(dateUtc, Single(id, convention))
                          ELSE heightCmAtUTC2(dateUtc, Single(id, convention))]
  /\ UNCHANGED <<lib, defaults, pc, call, i, out, dayCtx, built, result, attempt, writes,
                 seen, deg, norm>>

NextNodal ==
  \/ \E id \in Ids, Ndeg \in NodeAngles : NodalProbe(id, Ndeg)
  \/ \E id \in Ids, d \in Instants, cv \in {"cos", "sin"} : SingleProbe(id, d, cv)

SpecNodal == Init /\ [][NextNodal]_vars

\* The astronomical arguments at dateUtc: those of its UTC midnight advanced
\* by the time since that midnight.
ArgsAt(dateUtc) ==
  Only({ IF lib = 1 THEN advanceArgs(astroArgsAtUTMidnight(mid), MsBetween(dateUtc, mid))
         ELSE advanceArgs2(astroArgsAtUTMidnight(mid), MsBetween(dateUtc, mid)) :
           mid \in {utcMidnightMs(dateUtc)} })

\* The base angle the arguments are formed from: T, shifted by the profile's
\* reference longitude under the first definition.
BaseAngle(T, params) ==
  IF lib = 1 THEN (T + OrElse(params.referenceLongitude_deg, 0)) % (360 * UDEG) ELSE T

\* V = sum of coefficient[k] * angle[k] over (T, s, h, p, N); the second
\* definition's constituents carry no coefficient for N.
ArgumentV(c, args, params) ==
  c.a[1] * BaseAngle(args.T, params) + c.a[2] * args.s + c.a[3] * args.h + c.a[4] * args.p
    + (IF lib = 1 THEN c.a[5] * args.N ELSE 0)

\* trig(x) of the profile's phase convention, x reduced modulo 360 degrees;
\* the second definition applies the cosine.
Trig(params, x) ==
  IF lib = 1 /\ OrElse(params.phaseConvention, "cos") = "sin"
  THEN sind(x % (360 * UDEG)) ELSE cosd(x % (360 * UDEG))

Tabulated == {"O1", "K1", "M2", "K2"}

\* C11: for an id other than O1, K1, M2 and K2 and any node angle N, nodalFU
\* returns exactly f = 1 and u = 0, and a constituent of that id contributes
\* H_cm * trig(V - kappa_deg) to the height, which is returned as a number.
C11_UntabulatedFallback ==
  /\ (probe.kind = "nodalFU" /\ probe.id \notin Tabulated) => probe.fu = [f |-> E6, u |-> 0]
  /\ (probe.kind = "single" /\ probe.id \notin Tabulated) =>
       /\ probe.height.kind = "number"
       /\ \E c \in {probe.params.constituents[1]}, args \in {ArgsAt(probe.date)} :
            probe.height.cm - probe.params.Z0_cm =
              MulE6(c.H_cm, Trig(probe.params, ArgumentV(c, args, probe.params) - c.kappa_deg))

\* nodalFU has returned f = 1, u = 0 for an id of no table at a node angle
\* where the tabulated corrections are not zero.
C11_Witness ==
  /\ probe.kind = "nodalFU"
  /\ probe.id = "N2"
  /\ probe.N = 45 * UDEG
  /\ probe.fu = [f |-> E6, u |-> 0]

\* The profile with the cosine convention and every constituent's phase
\* reduced by 90 degrees (its phase lag raised by 90 degrees).
QuarterTurnBack(params) ==
  [params EXCEPT !.phaseConvention = Str("cos"),
                 !.constituents =
                   [j \in 1..Len(params.constituents) |->
                      [params.constituents[j] EXCEPT !.kappa_deg = @ + 90 * UDEG]]]

\* C12: under the first definition, a heightCmAtUTC call with a profile of
\* phaseConvention "sin" ends as the call with the same instant and the
\* profile of convention "cos" whose phases are all reduced by 90 degrees:
\* the same height, or the same error.
C12_SineIsShiftedCosine ==
  (/\ HeightEnded
   /\ lib = 1
   /\ call.date.k = "Date"
   /\ call.params.phaseConvention = Str("sin")) =>
    result = heightCmAtUTC(call.date, QuarterTurnBack(call.params))

\* A height has been returned for a profile of convention "sin" with
\* constituents, and it is not the height of the unshifted cosine profile.
C12_Witness ==
  /\ HeightEnded
  /\ lib = 1
  /\ call.params.phaseConvention = Str("sin")
  /\ Len(call.params.constituents) > 0
  /\ result.kind = "number"
  /\ result # heightCmAtUTC(call.date, [call.params EXCEPT !.phaseConvention = Str("cos")])

----------------------------------------------------------------------------
(* Shifts of the base angle: the profile options referenceLongitude_deg    *)
(* and tauOffset_deg (README.md lines 71-72).  No line of tide-lib.js      *)
(* reads a property tauOffset_deg.                                         *)

\* Constituent lists: the default profile's, and one with a coefficient for
\* p (Q1) and with no coefficient for T (Mf).
ShiftLists ==
  {ITSUKUSHIMA_PARAMS.constituents,
   << Constituent("Q1", 5000000, 190 * UDEG, <<1, -3, 1, 1, 0>>),
      Constituent("Mf", 2000000, 30 * UDEG, <<0, 2, 0, 0, 0>>),
      Constituent("M2", 103000000, 277 * UDEG, <<2, -2, 2, 0, 0>>) >>}

\* Profiles that set neither option.
ShiftProfiles ==
  {[Profile(Str(cv), NoSeasonal, l) EXCEPT !.referenceLongitude_deg = NoNum] :
     cv \in {"cos", "sin"}, l \in ShiftLists}

ShiftFields == {"referenceLongitude_deg", "tauOffset_deg"}

\* Offsets in micro-degrees: negative, zero, the default profile's
\* longitude, and a whole turn.
Shifts ==
  {-90 * UDEG, 0, 45 * UDEG, ITSUKUSHIMA_PARAMS.referenceLongitude_deg.v, 360 * UDEG}

\* { ...params, [field]: delta }
WithShift(params, field, delta) ==
  IF field = "referenceLongitude_deg" THEN [params EXCEPT !.referenceLongitude_deg = Num(delta)]
  ELSE (field :> Num(delta)) @@ params

\* heightCmAtUTC evaluated for a profile with one of the two options set.
ShiftProbe(dateUtc, params, field, delta) ==
  /\ pc = "idle"
  /\ probe' = [kind |-> "shift", date |-> dateUtc, params |-> params, field |-> field,
               delta |-> delta,
               height |-> IF lib = 1 THEN heightCmAtUTC(dateUtc, WithShift(params, field, delta))
                          ELSE heightCmAtUTC2(dateUtc, WithShift(params, field, delta))]
  /\ UNCHANGED <<lib, defaults, pc, call, i, out, dayCtx, built, result, attempt, writes,
                 seen, deg, norm>>

NextShift ==
  \E d \in Instants, p \in ShiftProfiles, fld \in ShiftFields, delta \in Shifts :
    ShiftProbe(d, p, fld, delta)

SpecShift == Init /\ [][NextShift]_vars

\* The profile whose every argument V is raised by coefficient[0] * delta:
\* each phase lag kappa_deg is lowered by that amount.
ArgumentsRaised(params, delta) ==
  [params EXCEPT !.constituents =
     [j \in 1..Len(params.constituents) |->
        [params.constituents[j] EXCEPT !.kappa_deg = @ - params.constituents[j].a[1] * delta]]]

\* C13: a profile with tauOffset_deg set to delta evaluates as the profile
\* without it does after each constituent's phase is raised by
\* coefficient[0] * delta (modulo 360 degrees).
C13_PhaseOriginOffset ==
  (probe.kind = "shift" /\ probe.field = "tauOffset_deg") =>
    probe.height =
      (IF lib = 1 THEN heightCmAtUTC(probe.date, ArgumentsRaised(probe.params, probe.delta))
       ELSE heightCmAtUTC2(probe.date, ArgumentsRaised(probe.params, probe.delta)))

ContextOf(midnightMs, params) ==
  IF lib = 1 THEN createDayContext(midnightMs, params) ELSE createDayContext2(midnightMs, params)

\* C15: inside the loop of seriesCmAtUTC, the cached DayContext is the one of
\* the UTC midnight of the sample evaluated last: its midnightMs is that
\* midnight, and its base angles and nodal factors are that day's.
C15_ContextOfSampleDay ==
  (pc = "loop" /\ i > 0) =>
    /\ dayCtx # NoCtx
    /\ dayCtx.midnightMs = utcMidnightMs(out[i].tUTC)
    /\ dayCtx = ContextOf(utcMidnightMs(out[i].tUTC), call.params)

\* The loop has evaluated the sample at a UTC midnight after a sample of the
\* day before.
C15_Witness ==
  /\ pc = "loop"
  /\ i >= 2
  /\ out[i].tUTC.ms = 0
  /\ out[i - 1].tUTC.day < out[i].tUTC.day
  /\ dayCtx # NoCtx
  /\ dayCtx.midnightMs = Ts(out[i].tUTC.day, 0)

\* The UTC days of a sequence of samples.
DaysOf(samples) == {samples[k].tUTC.day : k \in 1..Len(samples)}

\* C16: in a seriesCmAtUTC call the number of createDayContext calls made so
\* far is the number of distinct UTC days among the samples evaluated so far:
\* one for the first sample, one more at each sample of another UTC day, none
\* at a sample of the cached day; the call returns with as many builds as its
\* samples have UTC days.
C16_BuildsPerDay ==
  /\ pc = "loop" =>
       /\ built = Cardinality(DaysOf(out))
       /\ i > 0 => built >= 1
       /\ i = 0 => dayCtx = NoCtx
  /\ (SeriesEnded /\ result.kind = "array") =>
       /\ built = Cardinality(DaysOf(result.samples))
       /\ built >= 1

\* A call has returned three samples of two UTC days after two builds.
C16_Witness ==
  /\ SeriesEnded
  /\ result.kind = "array"
  /\ Len(result.samples) = 3
  /\ Cardinality(DaysOf(result.samples)) = 2
  /\ built = 2

----------------------------------------------------------------------------
(* Termination.  seriesCmAtUTC is synchronous code of a single thread: once *)
(* the loop is entered, each iteration that can run does run, and so does  *)
(* the return that follows the last one.                                   *)

SpecFair == Spec /\ WF_vars(SeriesStep) /\ WF_vars(SeriesReturn)

\* Every seriesCmAtUTC call that enters its loop leaves it: it returns or
\* an evaluation throws.
LoopEnds == (pc = "loop") ~> (pc = "idle")

\* C17: a seriesCmAtUTC call with a valid start, a finite duration >= 0 and a
\* finite step > 0 (and a recognised phase convention) that enters its loop
\* leaves it by returning, after floor(duration / step) + 1 iterations, an
\* array of that many samples.
C17_LoopReturns ==
  (pc = "loop" /\ i = 0 /\ Accepted(call) /\ Recognised(call.params))
    ~> (/\ SeriesEnded
        /\ result.kind = "array"
        /\ Len(result.samples) = (call.minutes.v \div call.stepMinutes.v) + 1)

----------------------------------------------------------------------------
(* heightCmAtUTC over profiles with and without a seasonal model, with     *)
(* v0_deg set and omitted, with an id repeated, and with no constituent.   *)

\* Constituent lists: none, the default profile's, one with other
\* coefficient vectors, one whose second constituent sets v0_deg, and one
\* that lists M2 twice between constituents of other ids.
HeightLists ==
  ShiftLists \cup
  {<<>>,
   << Constituent("K1", 31000000, 219 * UDEG, <<1, 0, 1, 0, 0>>),
      [Constituent("O1", 24000000, 201 * UDEG, <<1, -2, 1, 0, 0>>)
         EXCEPT !.v0_deg = Num(25 * UDEG)] >>,
   << Constituent("M2", 103000000, 277 * UDEG, <<2, -2, 2, 0, 0>>),
      Constituent("K2", 10900000, 310 * UDEG, <<2, 0, 2, 0, 0>>),
      Constituent("M2", 103000000, 277 * UDEG, <<2, -2, 2, 0, 0>>),
      Constituent("S2", 40000000, 310 * UDEG, <<2, 0, 0, 0, 0>>) >>}

HeightProfiles ==
  {Profile(Str(cv), m, l) :
     cv \in {"cos", "sin"}, m \in {NoSeasonal, ITSUKUSHIMA_PARAMS.seasonalMeanModel},
     l \in HeightLists}

\* heightCmAtUTC(dateUtc, params) evaluated.
HeightProbe(dateUtc, params) ==
  /\ pc = "idle"
  /\ probe' = [kind |-> "height", date |-> dateUtc, params |-> params,
               height |-> IF lib = 1 THEN heightCmAtUTC(dateUtc, params)
                          ELSE heightCmAtUTC2(dateUtc, params)]
  /\ UNCHANGED <<lib, defaults, pc, call, i, out, dayCtx, built, result, attempt, writes,
                 seen, deg, norm>>

NextHeight == \E d \in Instants, p \in HeightProfiles : HeightProbe(d, p)

SpecHeight == Init /\ [][NextHeight]_vars

\* nodalFU of the loaded definition.
NodalOf(id, Ndeg) == IF lib = 1 THEN nodalFU(id, Ndeg) ELSE nodalFU2(id, Ndeg)

\* v0_deg, 0 when omitted; the second definition's constituents have none.
EquilibriumOffset(c) == IF lib = 1 THEN OrElse(c.v0_deg, 0) ELSE 0

\* f * H_cm * trig(mod360(V + v0 + u - kappa_deg)) for constituent c.
TermOf(c, fu, args, params) ==
  MulE6(MulE6(fu.f, c.H_cm),
        Trig(params, ArgumentV(c, args, params) + EquilibriumOffset(c) + fu.u - c.kappa_deg))

\* The sum of the terms of the constituents j, j+1, ... of the list, each
\* with the nodal pair of its own id at the node angle N.
RECURSIVE SumFrom(_, _, _, _)
SumFrom(j, params, args, N) ==
  IF j > Len(params.constituents) THEN 0
  ELSE Only({ TermOf(c, NodalOf(c.id, N), args, params) : c \in {params.constituents[j]} })
         + SumFrom(j + 1, params, args, N)

\* The sum of all terms at dateUtc; N is the node angle of the UTC midnight.
SumOfTerms(dateUtc, params) ==
  Only({ SumFrom(1, params, args, base.N) :
           args \in {ArgsAt(dateUtc)},
           base \in {astroArgsAtUTMidnight(utcMidnightMs(dateUtc))} })

HasSeasonal(params) ==
  params.seasonalMeanModel.has /\ params.seasonalMeanModel.type = "annual+semiannual"

\* C18: heightCmAtUTC with a valid instant and a convention "cos" or "sin"
\* returns a number, Z0 + anomaly + the sum over the list of
\* f * H_cm * trig(mod360(V + v0 + u - kappa_deg)), each constituent counted
\* once with the nodal pair of its own id and v0 = 0 when omitted: without a
\* seasonal model the anomaly is 0 (and with an empty list the number is
\* Z0); with one it is at most the sum of the two amplitudes in size.
C18_HeightFormula ==
  probe.kind = "height" =>
    /\ probe.height.kind = "number"
    /\ \E rest \in {probe.height.cm - probe.params.Z0_cm
                      - SumOfTerms(probe.date, probe.params)} :
         IF HasSeasonal(probe.params)
         THEN Abs(rest) <= Abs(probe.params.seasonalMeanModel.annual.amp_cm)
                             + Abs(probe.params.seasonalMeanModel.semiannual.amp_cm)
         ELSE rest = 0
    /\ (~HasSeasonal(probe.params) /\ probe.params.constituents = <<>>) =>
         probe.height.cm = probe.params.Z0_cm

----------------------------------------------------------------------------
(* advanceArgs on its own.                                                 *)

HalfHours == 47

\* tHours * HOUR_MS: the half hours of a day, from 0:00.
Elapsed == {k * 30 * MINUTE_MS : k \in 0..HalfHours}

\* Base angles: those of two consecutive UTC midnights (in two years), and
\* one that no date gives.
Bases ==
  {astroArgsAtUTMidnight(Ts(Eve, 0)), astroArgsAtUTMidnight(Ts(Eve + 1, 0)),
   [s |-> 0, h |-> 90 * UDEG, p |-> 359 * UDEG, N |-> 180 * UDEG]}

\* advanceArgs(base, tHours) evaluated.
AdvanceProbe(base, tMs) ==
  /\ pc = "idle"
  /\ probe' = [kind |-> "advance", base |-> base, tMs |-> tMs,
               args |-> IF lib = 1 THEN advanceArgs(base, tMs) ELSE advanceArgs2(base, tMs)]
  /\ UNCHANGED <<lib, defaults, pc, call, i, out, dayCtx, built, result, attempt, writes,
                 seen, deg, norm>>

NextAdvance == \E base \in Bases, tMs \in Elapsed : AdvanceProbe(base, tMs)

SpecAdvance == Init /\ [][NextAdvance]_vars

\* C19: advanceArgs returns T = (180 + 15 * tHours) mod 360 degrees, a
\* quarter of a degree per minute from 180 degrees at 0:00: 0 degrees at
\* 12:00, and the same for every base (the angles of any date's midnight).
C19_BaseAngleT ==
  probe.kind = "advance" =>
    /\ probe.args.T =
         (180 * UDEG + (probe.tMs \div MINUTE_MS) * (UDEG \div 4)) % (360 * UDEG)
    /\ probe.tMs = 0 => probe.args.T = 180 * UDEG
    /\ probe.tMs = 12 * HOUR_MS => probe.args.T = 0

\* advanceArgs has returned T = 0 for 12:00 from the base angles of the
\* midnight of 1 January 2025.
C19_Witness ==
  /\ probe.kind = "advance"
  /\ probe.base = astroArgsAtUTMidnight(Ts(Eve + 1, 0))
  /\ probe.tMs = 12 * HOUR_MS
  /\ probe.args.T = 0

----------------------------------------------------------------------------
(* The node angle N within a UTC day: advanceArgs on its own, and a series *)
(* of samples before and after a UTC midnight.                             *)

NextDay ==
  \/ \E base \in Bases, tMs \in Elapsed : AdvanceProbe(base, tMs)
  \/ \E p \in {Omitted, Given(Plain)} :
       CallSeries(DateAt(Eve, DAY_MS - 10 * MINUTE_MS), Number(MaxMinutes), Number(10), p)
  \/ SeriesStep
  \/ SeriesReturn

SpecDay == Init /\ [][NextDay]_vars

\* heightCmAtUTCWithDayCtx of the loaded definition.
HeightWith(dateUtc, params, ctx) ==
  IF lib = 1 THEN heightCmAtUTCWithDayCtx(dateUtc, params, ctx)
  ELSE heightCmAtUTCWithDayCtx2(dateUtc, params, ctx)

\* C20: advanceArgs returns N as it was given, for every time since
\* midnight; the nodal pairs of the cached DayContext are those of each
\* constituent's id at N of the context's UTC midnight, and every sample
\* pushed for that UTC day is the height evaluated with these same pairs.
C20_NodeHeldOverDay ==
  /\ probe.kind = "advance" => probe.args.N = probe.base.N
  /\ (pc = "loop" /\ i > 0) =>
       /\ dayCtx.base = astroArgsAtUTMidnight(dayCtx.midnightMs)
       /\ \A j \in 1..Len(call.params.constituents) :
            dayCtx.fu[j] = NodalOf(call.params.constituents[j].id, dayCtx.base.N)
       /\ \A k \in 1..i :
            out[k].tUTC.day = out[i].tUTC.day =>
              out[k].cm = HeightWith(out[k].tUTC, call.params, dayCtx).cm

\* advanceArgs has returned N unchanged 23 hours after midnight, and the
\* loop has pushed two samples of one UTC day, ten minutes apart.
C20_Witness ==
  /\ probe.kind = "advance"
  /\ probe.tMs = 23 * HOUR_MS
  /\ probe.args.N = probe.base.N
  /\ pc = "loop"
  /\ i >= 2
  /\ out[i - 1].tUTC.day = out[i].tUTC.day
  /\ out[i - 1].tUTC.ms < out[i].tUTC.ms
  /\ Len(call.params.constituents) > 0

----------------------------------------------------------------------------
(* astroArgsAtUTMidnight on its own, day after day.                        *)

WalkYears == 200

\* The first day evaluated: 1 December 1900.
WalkStart == DayFromYear(1901) - 31

\* astroArgsAtUTMidnight(dateUTC) evaluated, with the year, the day of the
\* year and the leap-year correction it computes on the way.
AstroOf(dateUTC) ==
  Only({ [kind |-> "astro", date |-> dateUTC, Y |-> Y, D |-> dayOfYear0(dateUTC),
          L |-> L_correction(Y), args |-> astroArgsAtUTMidnight(dateUTC)] :
           Y \in {getUTCFullYear(dateUTC)} })

\* astroArgsAtUTMidnight evaluated for the first day, and after that for the
\* midnight of the UTC day that follows the day evaluated last.
AstroNextDay ==
  /\ pc = "idle"
  /\ \E day \in {IF probe.kind = "astro" THEN probe.date.day + 1 ELSE WalkStart} :
       /\ day < DayFromYear(1901 + WalkYears)
       /\ probe' = AstroOf(Ts(day, 0))
  /\ UNCHANGED <<lib, defaults, pc, call, i, out, dayCtx, built, result, attempt, writes,
                 seen, deg, norm>>

NextAstro == AstroNextDay

SpecAstro == Init /\ [][NextAstro]_vars

\* c0 + perYear * y + perDay * d modulo 360 degrees, in micro-degrees.
AngleOf(c0, perYear, y, perDay, d) ==
  (c0 + MulMod(perYear, y) + MulMod(perDay, d)) % (360 * UDEG)

\* C21: astroArgsAtUTMidnight uses the zero-based UTC day of the year D (0 on
\* 1 January, 364 or 365 on 31 December), L = floor((Y + 3) / 4) - 500 and
\* d = D + L with the per-day rates, the node rate negative, and returns
\* s, h, p and N in [0, 360).
C21_AnglesAtMidnight ==
  probe.kind = "astro" =>
    /\ probe.D = probe.date.day - DayFromYear(probe.Y)
    /\ probe.date.day = DayFromYear(probe.Y) => probe.D = 0
    /\ probe.date.day + 1 = DayFromYear(probe.Y + 1) => probe.D = DaysInYear(probe.Y) - 1
    /\ probe.L = ((probe.Y + 3) \div 4) - 500
    /\ \E y \in {probe.Y - 2000}, d \in {probe.D + probe.L} :
         /\ probe.args.s = AngleOf(211728000, 129384710, y, 13176396, d)
         /\ probe.args.h = AngleOf(279974000, -238710, y, 985647, d)
         /\ probe.args.p = AngleOf(83298000, 40662290, y, 111404, d)
         /\ probe.args.N = AngleOf(125071000, -19328120, y, -52954, d)
    /\ \A a \in {probe.args.s, probe.args.h, probe.args.p, probe.args.N} :
         0 <= a /\ a < 360 * UDEG

\* The angles of 31 December 1904, the last day of a leap year, have been
\* computed with D = 365 and L = -24.
C21_Witness ==
  /\ probe.kind = "astro"
  /\ probe.date.day + 1 = DayFromYear(1905)
  /\ probe.Y = 1904
  /\ probe.D = 365
  /\ probe.L = -24
  /\ probe.args.N = AngleOf(125071000, -19328120, -96, -52954, 341)

\* C23: for every UTC date from 1901-01-01 through 2100-12-31 the day count
\* 365 * (Y - 2000) + D + L is the number of whole days from 2000-01-01 to
\* the date, one more each day, across every 31 December.
C23_EffectiveDayCount ==
  (/\ probe.kind = "astro"
   /\ DayFromYear(1901) <= probe.date.day
   /\ probe.date.day < DayFromYear(2101)) =>
    365 * (probe.Y - 2000) + probe.D + probe.L = probe.date.day - DayFromYear(2000)

\* The count of 1 January 1905, the day after 31 December of a leap year,
\* is one more than the count of that day.
C23_Witness ==
  /\ probe.kind = "astro"
  /\ probe.date.day = DayFromYear(1905)
  /\ probe.D = 0
  /\ 365 * (probe.Y - 2000) + probe.D + probe.L
       = 365 * (1904 - 2000) + 365 + L_correction(1904) + 1

----------------------------------------------------------------------------
(* What a call leaves behind.  The profile and the instant are read, never  *)
(* written; out, i and dayCtx are variables of seriesCmAtUTC's frame.       *)

\* C22: no step of heightCmAtUTC or seriesCmAtUTC, returning or throwing,
\* changes the default profile object (its constituents list and coefficient
\* arrays included); the arguments of a call in progress, its profile and its
\* instant, stay as they were passed; when a call ends, by return or by throw,
\* nothing of its frame is left (no samples, no index, no DayContext); and a
\* DayContext used inside a call has been built in that call from that call's
\* profile, never taken over from an earlier call.
C22_CallsLeaveNoTrace ==
  [][/\ defaults' = defaults
     /\ defaults' = (IF lib = 1 THEN ITSUKUSHIMA_PARAMS ELSE ITSUKUSHIMA_PARAMS2)
     /\ pc = "loop" => call' = call
     /\ pc' = "idle" =>
          /\ dayCtx' = NoCtx /\ out' = <<>> /\ i' = 0
          /\ call'.params = (IF call'.params.name = "custom" THEN call'.params ELSE defaults)
     /\ (pc' = "loop" /\ dayCtx' # NoCtx) =>
          /\ built' >= 1
          /\ dayCtx' = ContextOf(dayCtx'.midnightMs, call'.params)
     /\ (pc = "idle" /\ pc' = "loop") => dayCtx' = NoCtx /\ built' = 0]_vars

\* A seriesCmAtUTC call with a caller's profile has returned after building two
\* DayContexts; the profile is as it was passed and the default profile as it
\* was loaded.
C22_Witness ==
  /\ SeriesEnded
  /\ result.kind = "array"
  /\ built = 2
  /\ call.params = Plain
  /\ call.date = DateAt(Eve, DAY_MS - 10 * MINUTE_MS)
  /\ dayCtx = NoCtx
  /\ defaults = (IF lib = 1 THEN ITSUKUSHIMA_PARAMS ELSE ITSUKUSHIMA_PARAMS2)

----------------------------------------------------------------------------
(* The DayContext an evaluation is given.                                  *)

\* Lines 247-250: the midnight of the DayContext that the loop's next
\* iteration passes to heightCmAtUTCWithDayCtx for the instant d.
MidnightFor(d) ==
  Only({ IF NeedsRebuild(dayCtx, midMs) THEN midMs ELSE dayCtx.midnightMs :
           midMs \in {utcMidnightMs(d)} })

\* A midnight that is a whole UTC day, not later than the instant d and less
\* than 24 hours before it: tHours of line 165 is in [0, 24).
WithinItsDay(midnightMs, d) ==
  /\ midnightMs.ms = 0
  /\ MsBetween(d, midnightMs) >= 0
  /\ MsBetween(d, midnightMs) < 24 * HOUR_MS

\* C24: the DayContext of every evaluation has the midnight of a whole UTC day
\* that is not later than the instant evaluated, and the time since that
\* midnight, which is what advanceArgs receives, is at least 0 and less than
\* 24 hours: for the instant of a heightCmAtUTC call, for the sample that the
\* loop of seriesCmAtUTC evaluates next (whether its context is rebuilt or
\* the cached one), and for the sample pushed last and the context kept.
C24_HoursWithinDay ==
  /\ (HeightEnded /\ IsValidDate(call.date)) =>
       WithinItsDay(utcMidnightMs(call.date), call.date)
  /\ (pc = "loop" /\ i <= LastIndex(call)) =>
       WithinItsDay(MidnightFor(SampleInstant(call, i)), SampleInstant(call, i))
  /\ (pc = "loop" /\ i > 0) =>
       /\ dayCtx # NoCtx
       /\ WithinItsDay(dayCtx.midnightMs, out[i].tUTC)

\* The loop has evaluated the sample of 23:50 with the context of that day's
\* midnight (23 hours 50 minutes) and is about to evaluate the sample of the
\* next midnight, for which the cached context is not used.
C24_Witness ==
  /\ pc = "loop"
  /\ i = 1
  /\ out[1].tUTC = DateAt(Eve, DAY_MS - 10 * MINUTE_MS)
  /\ dayCtx # NoCtx
  /\ dayCtx.midnightMs = Ts(Eve, 0)
  /\ MsBetween(out[1].tUTC, dayCtx.midnightMs) = 23 * HOUR_MS + 50 * MINUTE_MS
  /\ SampleInstant(call, 1) = DateAt(Eve + 1, 0)
  /\ MidnightFor(SampleInstant(call, 1)) = Ts(Eve + 1, 0)

----------------------------------------------------------------------------
(* seriesCmAtUTC with arguments of every kind and a profile whose phase     *)
(* convention is neither "sin" nor "cos".                                   *)

OrderProfiles ==
  {Profile(Str("tan"), m, SubSeq(ITSUKUSHIMA_PARAMS.constituents, 4, 5)) :
     m \in {NoSeasonal, ITSUKUSHIMA_PARAMS.seasonalMeanModel}}

NextOrder ==
  \/ \E d \in Dates, m \in Durations, st \in Steps, p \in OrderProfiles :
       CallSeries(d, m, st, Given(p))
  \/ SeriesStep
  \/ SeriesReturn

SpecOrder == Init /\ [][NextOrder]_vars

\* The first of start, duration and step that the specification does not
\* accept, or "none".
FirstInvalid(c) ==
  IF c.date.k # "Date" THEN "startDateUtc"
  ELSE IF ~(c.minutes.k = "number" /\ c.minutes.v >= 0) THEN "minutes"
  ELSE IF ~(c.stepMinutes.k = "number" /\ c.stepMinutes.v > 0) THEN "stepMinutes"
  ELSE "none"

----------------------------------------------------------------------------
(* heightCmAtUTC with profiles that have no phaseConvention.                *)

\* Profiles whose phaseConvention is missing or null.
OmitProfiles ==
  {Profile(cv, m, l) :
     cv \in {NoStr, NullStr}, m \in {NoSeasonal, ITSUKUSHIMA_PARAMS.seasonalMeanModel},
     l \in HeightLists}

\* heightCmAtUTC(dateUtc, params) of the loaded definition.
HeightOf(dateUtc, params) ==
  IF lib = 1 THEN heightCmAtUTC(dateUtc, params) ELSE heightCmAtUTC2(dateUtc, params)

OmitProbe(dateUtc, params) ==
  /\ pc = "idle"
  /\ probe' = [kind |-> "omitted", date |-> dateUtc, params |-> params,
               height |-> HeightOf(dateUtc, params)]
  /\ UNCHANGED <<lib, defaults, pc, call, i, out, dayCtx, built, result, attempt, writes,
                 seen, deg, norm>>

NextOmit == \E d \in Instants, p \in OmitProfiles : OmitProbe(d, p)

SpecOmit == Init /\ [][NextOmit]_vars

\* C26: heightCmAtUTC of a profile whose phaseConvention is missing or null
\* ends as it ends for the same profile with phaseConvention "cos": with the
\* same number whenever that one returns a number (always, unless the
\* first definition is given a seasonal model), and never with
\* ConfigurationError.
C26_OmittedIsCosine ==
  probe.kind = "omitted" =>
    /\ ~probe.params.phaseConvention.has
    /\ probe.height.kind \notin ConfigurationError
    /\ probe.height
         = HeightOf(probe.date, [probe.params EXCEPT !.phaseConvention = Str("cos")])
    /\ (lib = 2 \/ ~HasSeasonal(probe.params)) => probe.height.kind = "number"

\* The first definition has returned a number for a profile with
\* phaseConvention null, and the number is not the one of the convention
\* "sin".
C26_Witness ==
  /\ probe.kind = "omitted"
  /\ lib = 1
  /\ probe.params.phaseConvention = NullStr
  /\ Len(probe.params.constituents) >= 2
  /\ probe.height.kind = "number"
  /\ probe.height
       = heightCmAtUTC(probe.date, [probe.params EXCEPT !.phaseConvention = Str("cos")])
  /\ probe.height
       # heightCmAtUTC(probe.date, [probe.params EXCEPT !.phaseConvention = Str("sin")])

====
